---------------------------- MODULE Spec2Model ----------------------------
(***************************************************************************)
(* A model of the command gatekeeper and execute/undo engine of LLMShell:  *)
(* SecurityValidator, PathManager, FileManager and CommandExecutor.        *)
(*                                                                         *)
(* Python strings are sequences of one-character strings, so that prefix   *)
(* tests, splitting, stripping and sanitisation are computed character by  *)
(* character as the code computes them.  A pathlib.Path is a record        *)
(* [abs, parts]; the filesystem is a set of directories and a function     *)
(* from file paths to contents, both keyed by absolute component lists.    *)
(***************************************************************************)
EXTENDS Integers, Sequences, FiniteSets, TLC

VARIABLES
    journal,    \* CommandExecutor.previous_commands
    dirs,       \* directories that exist on the filesystem
    files,      \* regular files that exist: path -> content
    last,       \* the most recent public call, its result and what it did
    calls,      \* number of public calls made so far
    createdBy,  \* per journal entry, the paths its execute call created
    text,       \* the string handed to a SecurityValidator method
    answer      \* the method applied to text and what it returned

vars == <<journal, dirs, files, last, calls, createdBy, text, answer>>

-----------------------------------------------------------------------------
(* Bounds of the exploration.                                              *)

MaxCalls == 3

\* Longest path string handed to sanitize_path
MaxPathLen == 6

\* Longest content string handed to sanitize_text_content
MaxContentLen == 5

\* Most words in a command handed to is_safe_command
MaxTokens == 3

-----------------------------------------------------------------------------
(* Characters and the Python str methods the code uses.                    *)

ShellMeta == {";", "&", "|"}
QuoteChars == {"\"", "'"}
ControlChars == {"\n", "\t"}
Whitespace == {" ", "\n", "\t"}

UpperLetters == <<"A","B","C","D","E","F","G","H","I","J","K","L","M",
                  "N","O","P","Q","R","S","T","U","V","W","X","Y","Z">>
LowerLetters == <<"a","b","c","d","e","f","g","h","i","j","k","l","m",
                  "n","o","p","q","r","s","t","u","v","w","x","y","z">>

\* str.lower(), one character
LowerChar(c) ==
    IF \E i \in DOMAIN UpperLetters : UpperLetters[i] = c
    THEN LowerLetters[CHOOSE i \in DOMAIN UpperLetters : UpperLetters[i] = c]
    ELSE c

\* str.lower()
Lower(s) == [i \in DOMAIN s |-> LowerChar(s[i])]

\* s.replace(c, '') for every c in cs
RemoveChars(s, cs) == SelectSeq(s, LAMBDA c : c \notin cs)

\* s.lstrip(chars)
RECURSIVE LStrip(_, _)
LStrip(s, cs) ==
    IF s # <<>> /\ Head(s) \in cs THEN LStrip(Tail(s), cs) ELSE s

\* s.rstrip(chars)
RECURSIVE RStrip(_, _)
RStrip(s, cs) ==
    IF s # <<>> /\ s[Len(s)] \in cs THEN RStrip(SubSeq(s, 1, Len(s) - 1), cs) ELSE s

\* s.strip(chars)
Strip(s, cs) == RStrip(LStrip(s, cs), cs)

\* s.startswith(p)
StartsWith(s, p) == Len(s) >= Len(p) /\ SubSeq(s, 1, Len(p)) = p

\* s.endswith(p)
EndsWith(s, p) == Len(s) >= Len(p) /\ SubSeq(s, Len(s) - Len(p) + 1, Len(s)) = p

\* c in s
Contains(s, c) == \E i \in DOMAIN s : s[i] = c

\* s.find(p) as a 1-based index, 0 when p does not occur
Find(s, p) ==
    LET hits == {i \in 1..(Len(s) - Len(p) + 1) : SubSeq(s, i, i + Len(p) - 1) = p}
    IN  IF hits = {} THEN 0 ELSE CHOOSE i \in hits : \A j \in hits : i <= j

\* s.rfind(c) for one character, 0 when c does not occur
RFindChar(s, c) ==
    LET hits == {i \in DOMAIN s : s[i] = c}
    IN  IF hits = {} THEN 0 ELSE CHOOSE i \in hits : \A j \in hits : i >= j

\* s.replace(p, '', 1)
RemoveFirst(s, p) ==
    LET i == Find(s, p)
    IN  IF i = 0 THEN s ELSE SubSeq(s, 1, i - 1) \o SubSeq(s, i + Len(p), Len(s))

\* s.split(c): the pieces between the occurrences of the character c
RECURSIVE SplitOn(_, _)
SplitOn(s, c) ==
    LET i == Find(s, <<c>>)
    IN  IF i = 0 THEN <<s>>
        ELSE <<SubSeq(s, 1, i - 1)>> \o SplitOn(SubSeq(s, i + 1, Len(s)), c)

\* s.split(c, 1)
SplitOnce(s, c) ==
    LET i == Find(s, <<c>>)
    IN  IF i = 0 THEN <<s>>
        ELSE <<SubSeq(s, 1, i - 1), SubSeq(s, i + 1, Len(s))>>

\* s.split(): the maximal runs of non-whitespace characters
RECURSIVE SplitWs(_)
SplitWs(s) ==
    LET t == LStrip(s, Whitespace)
        ends == {i \in DOMAIN t : t[i] \in Whitespace}
        e == IF ends = {} THEN Len(t) + 1 ELSE CHOOSE i \in ends : \A j \in ends : i <= j
    IN  IF t = <<>> THEN <<>>
        ELSE <<SubSeq(t, 1, e - 1)>> \o SplitWs(SubSeq(t, e, Len(t)))

\* sep.join(items)
RECURSIVE Join(_, _)
Join(items, sep) ==
    IF items = <<>> THEN <<>>
    ELSE IF Len(items) = 1 THEN items[1]
    ELSE items[1] \o sep \o Join(Tail(items), sep)


\* shlex.split(s): POSIX word splitting with ' and " quoting; ok is FALSE
\* where shlex raises ValueError("No closing quotation")
RECURSIVE ShlexScan(_, _, _, _, _)
ShlexScan(s, cur, inTok, quote, toks) ==
    IF s = <<>>
    THEN IF quote # ""
         THEN [ok |-> FALSE, tokens |-> <<>>]
         ELSE [ok |-> TRUE, tokens |-> IF inTok THEN Append(toks, cur) ELSE toks]
    ELSE LET c == Head(s)
             r == Tail(s)
         IN  IF quote # ""
             THEN IF c = quote
                  THEN ShlexScan(r, cur, TRUE, "", toks)
                  ELSE ShlexScan(r, Append(cur, c), TRUE, quote, toks)
             ELSE IF c \in Whitespace
             THEN ShlexScan(r, <<>>, FALSE, "", IF inTok THEN Append(toks, cur) ELSE toks)
             ELSE IF c \in QuoteChars
             THEN ShlexScan(r, cur, TRUE, c, toks)
             ELSE ShlexScan(r, Append(cur, c), TRUE, "", toks)

ShlexSplit(s) == ShlexScan(s, <<>>, FALSE, "", <<>>)

-----------------------------------------------------------------------------
(* pathlib.Path on a POSIX system.                                         *)

\* Path(s): empty and "." components are dropped
ParsePath(s) ==
    [abs   |-> StartsWith(s, <<"/">>),
     parts |-> SelectSeq(SplitOn(s, "/"), LAMBDA c : c # <<>> /\ c # <<".">>)]

\* Path.name
PathName(p) == IF p.parts = <<>> THEN <<>> ELSE p.parts[Len(p.parts)]

\* Path.suffix: the name from its last dot on, when that dot is neither the
\* first nor the last character of the name
PathSuffix(p) ==
    LET name == PathName(p)
        i == RFindChar(name, ".")
    IN  IF 1 < i /\ i < Len(name) THEN SubSeq(name, i, Len(name)) ELSE <<>>

\* Path.parent
PathParent(p) ==
    IF p.parts = <<>> THEN p
    ELSE [abs |-> p.abs, parts |-> SubSeq(p.parts, 1, Len(p.parts) - 1)]

\* base / p
PathJoin(base, p) ==
    IF p.abs THEN p ELSE [abs |-> base.abs, parts |-> base.parts \o p.parts]

\* str(p)
PathStr(p) ==
    IF p.abs THEN <<"/">> \o Join(p.parts, <<"/">>)
    ELSE IF p.parts = <<>> THEN <<".">>
    ELSE Join(p.parts, <<"/">>)

-----------------------------------------------------------------------------
(* The process environment: working directory, home directory, and the    *)
(* directories the process may not write to.                               *)

CwdParts == << <<"w">> >>
HomeParts == << <<"h">> >>
ReadOnlyDirs == { <<>>, << <<"w">>, <<"r","o">> >> }

\* Path.cwd()
Cwd == [abs |-> TRUE, parts |-> CwdParts]

\* Path.expanduser(): a leading "~" component becomes the home directory;
\* ok is FALSE where pathlib raises RuntimeError (a ~name with no such user)
ExpandUser(p) ==
    IF p.abs \/ p.parts = <<>> \/ ~StartsWith(p.parts[1], <<"~">>)
    THEN [ok |-> TRUE, path |-> p]
    ELSE IF p.parts[1] = <<"~">>
    THEN [ok |-> TRUE, path |-> [abs |-> TRUE, parts |-> HomeParts \o Tail(p.parts)]]
    ELSE [ok |-> FALSE, path |-> p]

\* The absolute component list the operating system resolves a path to
Resolve(p) == IF p.abs THEN p.parts ELSE CwdParts \o p.parts

ParentOf(a) == SubSeq(a, 1, Len(a) - 1)

IsUnder(x, a) == Len(x) > Len(a) /\ SubSeq(x, 1, Len(a)) = a

-----------------------------------------------------------------------------
(* The operating system's filesystem calls, on absolute component lists.   *)
(* Each returns the exception it raises ("" for none) and the filesystem   *)
(* it leaves.  Directories the process creates are writable; read-only     *)
(* directories stay empty, since every creating call needs a writable      *)
(* parent.                                                                 *)

IsDir(a, ds) == a \in ds
IsFile(a, fs) == a \in DOMAIN fs

\* Path.exists()
Exists(a, ds, fs) == IsDir(a, ds) \/ IsFile(a, fs)

\* os.access(a, os.W_OK)
AccessW(a, ds, fs) == IsFile(a, fs) \/ (IsDir(a, ds) /\ a \notin ReadOnlyDirs)

FsResult(exc, ds, fs) == [exc |-> exc, dirs |-> ds, files |-> fs]

\* os.mkdir(a)
OsMkdir(a, ds, fs) ==
    IF Exists(a, ds, fs) THEN FsResult("FileExistsError", ds, fs)
    ELSE IF IsFile(ParentOf(a), fs) THEN FsResult("NotADirectoryError", ds, fs)
    ELSE IF ~IsDir(ParentOf(a), ds) THEN FsResult("FileNotFoundError", ds, fs)
    ELSE IF ParentOf(a) \in ReadOnlyDirs THEN FsResult("PermissionError", ds, fs)
    ELSE FsResult("", ds \cup {a}, fs)

\* Path.mkdir(parents=True, exist_ok=True)
RECURSIVE MkdirParents(_, _, _)
MkdirParents(a, ds, fs) ==
    LET first == OsMkdir(a, ds, fs)
    IN  IF first.exc = "FileNotFoundError" /\ a # <<>>
        THEN LET up == MkdirParents(ParentOf(a), ds, fs)
             IN  IF up.exc # "" THEN up ELSE OsMkdir(a, up.dirs, up.files)
        ELSE IF first.exc # "" /\ IsDir(a, ds)
        THEN FsResult("", ds, fs)
        ELSE first

\* Path.touch(): os.utime on an existing path, else os.open(O_CREAT | O_WRONLY)
PathTouch(a, ds, fs) ==
    IF Exists(a, ds, fs) THEN FsResult("", ds, fs)
    ELSE IF IsFile(ParentOf(a), fs) THEN FsResult("NotADirectoryError", ds, fs)
    ELSE IF ~IsDir(ParentOf(a), ds) THEN FsResult("FileNotFoundError", ds, fs)
    ELSE IF ParentOf(a) \in ReadOnlyDirs THEN FsResult("PermissionError", ds, fs)
    ELSE FsResult("", ds, (a :> <<>>) @@ fs)

\* open(a, 'w') followed by f.write(content)
OpenWrite(a, content, ds, fs) ==
    IF IsDir(a, ds) THEN FsResult("IsADirectoryError", ds, fs)
    ELSE IF IsFile(a, fs) THEN FsResult("", ds, (a :> content) @@ fs)
    ELSE IF IsFile(ParentOf(a), fs) THEN FsResult("NotADirectoryError", ds, fs)
    ELSE IF ~IsDir(ParentOf(a), ds) THEN FsResult("FileNotFoundError", ds, fs)
    ELSE IF ParentOf(a) \in ReadOnlyDirs THEN FsResult("PermissionError", ds, fs)
    ELSE FsResult("", ds, (a :> content) @@ fs)

\* os.remove(a)
OsRemove(a, ds, fs) ==
    IF ~Exists(a, ds, fs)
    THEN IF IsFile(ParentOf(a), fs) THEN FsResult("NotADirectoryError", ds, fs)
         ELSE FsResult("FileNotFoundError", ds, fs)
    ELSE IF ParentOf(a) \in ReadOnlyDirs THEN FsResult("PermissionError", ds, fs)
    ELSE IF IsDir(a, ds) THEN FsResult("IsADirectoryError", ds, fs)
    ELSE FsResult("", ds, [x \in DOMAIN fs \ {a} |-> fs[x]])

\* shutil.rmtree(a): everything under a is removed, then a itself
RmTree(a, ds, fs) ==
    IF IsFile(a, fs) \/ IsFile(ParentOf(a), fs) THEN FsResult("NotADirectoryError", ds, fs)
    ELSE IF ~IsDir(a, ds) THEN FsResult("FileNotFoundError", ds, fs)
    ELSE LET keptDirs == {x \in ds : ~IsUnder(x, a)}
             keptFiles == [x \in {y \in DOMAIN fs : ~IsUnder(y, a)} |-> fs[x]]
         IN  IF a = <<>> \/ ParentOf(a) \in ReadOnlyDirs
             THEN FsResult("PermissionError", keptDirs, keptFiles)
             ELSE FsResult("", keptDirs \ {a}, keptFiles)

-----------------------------------------------------------------------------
(* SecurityValidator                                                       *)

EchoWord == <<"e","c","h","o">>
MkdirWord == <<"m","k","d","i","r">>
TouchWord == <<"t","o","u","c","h">>

BLOCKED_COMMANDS ==
    { <<"r","m">>, <<"m","k","f","s">>, <<"d","d">>,
      <<":","(",")","{",":","|",":","&","}",";",":">>,
      <<"m","v">>, <<"c","h","m","o","d">> }

ALLOWED_COMMANDS == {TouchWord, EchoWord, MkdirWord}

ALLOWED_FILE_EXTENSIONS ==
    { <<".","t","x","t">>, <<".","m","d">>, <<".","c","s","v">> }

\* Fault variant of any_blocked: only the base command is looked up
any_blocked_base_only(command_parts) ==
    command_parts # <<>> /\ command_parts[1] \in BLOCKED_COMMANDS

\* any(blocked in command_parts for blocked in cls.BLOCKED_COMMANDS)
any_blocked(command_parts) ==
    \E i \in DOMAIN command_parts : command_parts[i] \in BLOCKED_COMMANDS

\* SecurityValidator.is_safe_command
is_safe_command(command) ==
    LET command_parts == SplitWs(Lower(command))
        base_command == IF command_parts # <<>> THEN command_parts[1] ELSE <<>>
    IN  IF any_blocked(command_parts)
        THEN FALSE
        ELSE IF base_command \in ALLOWED_COMMANDS
        THEN IF base_command = TouchWord
             THEN LET file_path == IF Len(command_parts) > 1
                                   THEN command_parts[Len(command_parts)]
                                   ELSE <<>>
                  IN  PathSuffix(ParsePath(file_path)) \in ALLOWED_FILE_EXTENSIONS
             ELSE TRUE
        ELSE IF StartsWith(command, EchoWord) /\ Contains(command, ">")
        THEN LET pieces == SplitOn(command, ">")
                 file_path == Strip(pieces[Len(pieces)], Whitespace)
             IN  PathSuffix(ParsePath(file_path)) \in ALLOWED_FILE_EXTENSIONS
        ELSE FALSE

\* SecurityValidator.sanitize_text_content
sanitize_text_content(content) ==
    RemoveChars(Strip(RemoveChars(content, ShellMeta), QuoteChars), ControlChars)

\* s.replace(p, ''): every non-overlapping occurrence, left to right
RECURSIVE RemoveAll(_, _)
RemoveAll(s, p) ==
    LET i == Find(s, p)
    IN  IF i = 0 THEN s
        ELSE SubSeq(s, 1, i - 1) \o RemoveAll(SubSeq(s, i + Len(p), Len(s)), p)

\* Fault variant of StripDotDot: a single replace, no loop
StripDotDot_once(s) == RemoveAll(s, <<".",".","/">>)

\* while '../' in sanitized: sanitized = sanitized.replace('../', '')
RECURSIVE StripDotDot(_)
StripDotDot(s) ==
    IF Find(s, <<".",".","/">>) = 0 THEN s
    ELSE StripDotDot(RemoveAll(s, <<".",".","/">>))

\* SecurityValidator.sanitize_path
sanitize_path(path) ==
    Strip(StripDotDot(RemoveChars(path, ShellMeta)), Whitespace)

\* Fault variant of sanitize_command: the command is returned as it came
sanitize_command_unchanged(command) == command

\* SecurityValidator.sanitize_command
sanitize_command(command) == sanitize_text_content(command)

-----------------------------------------------------------------------------
(* CommandResult.  output is a message template with its interpolated      *)
(* text; error is None or a message template, the exception whose str()    *)
(* it carries ("" when it carries none) and its interpolated text.         *)

Out(msg, arg) == [msg |-> msg, arg |-> arg]
Err(msg, exc, arg) == [msg |-> msg, exc |-> exc, arg |-> arg]

EmptyOutput == Out("", <<>>)
None == Err("None", "", <<>>)

CommandResult(success, output, command, error) ==
    [success |-> success, output |-> output, command |-> command, error |-> error]

Failure(command, error) == CommandResult(FALSE, EmptyOutput, command, error)

\* except Exception as e: ... error=str(e)
CaughtError(exc) == Err("str(e)", exc, <<>>)

\* What a handler did: its result, the filesystem it leaves and the
\* exception raised inside it ("" when none was)
Outcome(result, ds, fs, fault) ==
    [result |-> result, dirs |-> ds, files |-> fs, fault |-> fault]

-----------------------------------------------------------------------------
(* PathManager                                                             *)

\* PathManager.has_write_permission: os.access(path.parent, os.W_OK)
has_write_permission(path, ds, fs) == AccessW(Resolve(PathParent(path)), ds, fs)

\* PathManager.ensure_directory_exists: the exception is logged, not returned
ensure_directory_exists(path, ds, fs) ==
    LET made == MkdirParents(Resolve(path), ds, fs)
    IN  [ok |-> made.exc = "", exc |-> made.exc, dirs |-> made.dirs, files |-> made.files]

-----------------------------------------------------------------------------
(* FileManager                                                             *)

TxtSuffix == <<".","t","x","t">>

\* FileManager.create_text_file
create_text_file(directory, filename, content, command, ds, fs) ==
    IF ~Exists(Resolve(directory), ds, fs)
    THEN Outcome(Failure(command,
                 Err("Diretorio nao encontrado", "", PathStr(directory))), ds, fs, "")
    ELSE IF ~has_write_permission(directory, ds, fs)
    THEN Outcome(Failure(command,
                 Err("Permissao negada para criar arquivo em", "", PathStr(directory))),
                 ds, fs, "")
    ELSE LET sanitized == sanitize_path(filename)
             safe_filename == IF EndsWith(sanitized, TxtSuffix)
                              THEN sanitized ELSE sanitized \o TxtSuffix
             file_path == PathJoin(directory, ParsePath(safe_filename))
             safe_content == sanitize_text_content(content)
             w == OpenWrite(Resolve(file_path), safe_content, ds, fs)
         IN  IF w.exc = ""
             THEN Outcome(CommandResult(TRUE,
                              Out("Arquivo criado com sucesso", PathStr(file_path)),
                              command, None),
                          w.dirs, w.files, "")
             ELSE Outcome(Failure(command, CaughtError(w.exc)), w.dirs, w.files, w.exc)

\* FileManager.write_to_file
write_to_file(file_path, content, command, ds, fs) ==
    IF ~Exists(Resolve(PathParent(file_path)), ds, fs)
    THEN Outcome(Failure(command,
                 Err("Diretorio nao encontrado", "", PathStr(PathParent(file_path)))),
                 ds, fs, "")
    ELSE IF ~has_write_permission(PathParent(file_path), ds, fs)
    THEN Outcome(Failure(command,
                 Err("Permissao negada para escrever no arquivo", "", PathStr(file_path))),
                 ds, fs, "")
    ELSE LET safe_content == sanitize_text_content(content)
             w == OpenWrite(Resolve(file_path), safe_content, ds, fs)
         IN  IF w.exc = ""
             THEN Outcome(CommandResult(TRUE,
                              Out("Conteudo escrito com sucesso em", PathStr(file_path)),
                              command, None),
                          w.dirs, w.files, "")
             ELSE Outcome(Failure(command, CaughtError(w.exc)), w.dirs, w.files, w.exc)

-----------------------------------------------------------------------------
(* CommandExecutor: the handlers of the special commands                   *)

\* Fault variant of touch_check: the suffix is not checked
touch_check_permission_only(full_path, ds, fs) ==
    IF ~has_write_permission(full_path, ds, fs)
    THEN Err("Permissao negada para criar arquivo em", "", PathStr(full_path))
    ELSE None

\* _handle_touch's checks of the resolved path: the error it refuses the
\* command with, or None
touch_check(full_path, ds, fs) ==
    IF ~has_write_permission(full_path, ds, fs)
    THEN Err("Permissao negada para criar arquivo em", "", PathStr(full_path))
    ELSE IF PathSuffix(full_path) \notin ALLOWED_FILE_EXTENSIONS
    THEN Err("Extensao de arquivo nao permitida", "", <<>>)
    ELSE None

\* CommandExecutor._handle_touch
handle_touch(command, ds, fs) ==
    LET sp == ShlexSplit(command)
        parts == sp.tokens
    IN  IF ~sp.ok
        THEN Outcome(Failure(command, CaughtError("ValueError")), ds, fs, "ValueError")
        ELSE IF Len(parts) < 2
        THEN Outcome(Failure(command, Err("Comando touch invalido", "", <<>>)), ds, fs, "")
        ELSE LET file_path == ParsePath(parts[Len(parts)])
                 full_path == IF file_path.abs THEN file_path ELSE PathJoin(Cwd, file_path)
                 refusal == touch_check(full_path, ds, fs)
             IN  IF refusal # None
                 THEN Outcome(Failure(command, refusal), ds, fs, "")
                 ELSE LET t == PathTouch(Resolve(full_path), ds, fs)
                      IN  IF t.exc = ""
                          THEN Outcome(CommandResult(TRUE,
                                           Out("Arquivo criado com sucesso",
                                               PathStr(full_path)),
                                           command, None),
                                       t.dirs, t.files, "")
                          ELSE Outcome(Failure(command,
                                           Err("Erro ao criar arquivo", t.exc, <<>>)),
                                       t.dirs, t.files, t.exc)

\* The directory _handle_mkdir resolves dir_name to; ok is FALSE where
\* expanduser raises
mkdir_path(dir_name) ==
    IF StartsWith(dir_name, <<"~">>) THEN ExpandUser(ParsePath(dir_name))
    ELSE IF StartsWith(dir_name, <<"/">>) THEN [ok |-> TRUE, path |-> ParsePath(dir_name)]
    ELSE [ok |-> TRUE, path |-> PathJoin(Cwd, ParsePath(dir_name))]

\* CommandExecutor._handle_mkdir
handle_mkdir(command, ds, fs) ==
    LET sp == ShlexSplit(command)
        parts == sp.tokens
    IN  IF ~sp.ok
        THEN Outcome(Failure(command, CaughtError("ValueError")), ds, fs, "ValueError")
        ELSE IF Len(parts) < 2
        THEN Outcome(Failure(command, Err("Comando mkdir invalido", "", <<>>)), ds, fs, "")
        ELSE LET dir_name == parts[Len(parts)]
                 resolved == mkdir_path(dir_name)
                 path == resolved.path
             IN  IF ~resolved.ok
                 THEN Outcome(Failure(command, CaughtError("RuntimeError")),
                              ds, fs, "RuntimeError")
                 ELSE IF ~has_write_permission(path, ds, fs)
                 THEN Outcome(Failure(command,
                              Err("Permissao negada para criar diretorio em", "",
                                  PathStr(path))), ds, fs, "")
                 ELSE LET made == ensure_directory_exists(path, ds, fs)
                      IN  IF made.ok
                          THEN Outcome(CommandResult(TRUE,
                                           Out("Diretorio criado com sucesso",
                                               PathStr(path)),
                                           command, None),
                                       made.dirs, made.files, "")
                          ELSE Outcome(Failure(command,
                                           Err("Nao foi possivel criar o diretorio", "",
                                               PathStr(path))),
                                       made.dirs, made.files, made.exc)

\* CommandExecutor._handle_echo
handle_echo(command, ds, fs) ==
    LET parts == SplitOnce(command, ">")
    IN  IF Len(parts) # 2
        THEN Outcome(Failure(command, Err("Comando invalido para echo", "", <<>>)),
                     ds, fs, "")
        ELSE LET content == Strip(Strip(RemoveFirst(parts[1], EchoWord), Whitespace),
                                  QuoteChars)
                 file_path == sanitize_path(Strip(parts[2], Whitespace))
             IN  write_to_file(ParsePath(file_path), content, command, ds, fs)

-----------------------------------------------------------------------------
(* The process spawn boundary: subprocess.run(args, capture_output=True,   *)
(* text=True, timeout=30).  The program either cannot be started, exceeds  *)
(* the timeout, or exits with a return code and its captured streams; a    *)
(* timeout carries the output captured until then.                         *)
(* mkdir and touch act on the filesystem as the system utilities do, each  *)
(* operand in turn; any other program leaves the filesystem alone.         *)

SpawnResult(exc, rc, out, err, ds, fs) ==
    [exc |-> exc, returncode |-> rc, stdout |-> out, stderr |-> err,
     dirs |-> ds, files |-> fs]

RECURSIVE RunUtility(_, _, _, _, _)
RunUtility(prog, operands, rc, ds, fs) ==
    IF operands = <<>> THEN [returncode |-> rc, dirs |-> ds, files |-> fs]
    ELSE LET a == Resolve(ParsePath(Head(operands)))
             r == IF prog = MkdirWord THEN OsMkdir(a, ds, fs) ELSE PathTouch(a, ds, fs)
         IN  RunUtility(prog, Tail(operands), IF r.exc = "" THEN rc ELSE 1,
                        r.dirs, r.files)

SubprocessRun(args, ds, fs) ==
    { SpawnResult("FileNotFoundError", 0, <<>>, <<>>, ds, fs),
      SpawnResult("TimeoutExpired", 0, <<"o">>, <<>>, ds, fs) }
    \cup
    IF args[1] \in {MkdirWord, TouchWord}
    THEN LET run == RunUtility(args[1], Tail(args), 0, ds, fs)
         IN  { SpawnResult("", run.returncode, <<>>,
                           IF run.returncode = 0 THEN <<>> ELSE <<"e">>,
                           run.dirs, run.files) }
    ELSE { SpawnResult("", 0, Join(Tail(args), <<" ">>) \o <<"\n">>, <<>>, ds, fs),
           SpawnResult("", 1, <<>>, <<"e">>, ds, fs),
           SpawnResult("", 1, <<"o">>, <<>>, ds, fs) }

-----------------------------------------------------------------------------
(* CommandExecutor: the public operations                                  *)

\* What a public call did: its result, the state it leaves, the exception
\* raised inside it (fault), the exception it let escape to its caller
\* (raised), the handler that took the command and the argument vector it
\* handed to the spawn boundary, if any, with what the subprocess did (proc).
Done(result, j, ds, fs, fault, raised, route, spawned, argv, proc) ==
    [result |-> result, journal |-> j, dirs |-> ds, files |-> fs, fault |-> fault,
     raised |-> raised, route |-> route, spawned |-> spawned, argv |-> argv,
     proc |-> proc]

\* What came back from the spawn boundary: the exception subprocess.run
\* raised, or the exit code and the captured streams
Process(run) ==
    [exc |-> run.exc, returncode |-> run.returncode, stdout |-> run.stdout,
     stderr |-> run.stderr]

NoProcess == [exc |-> "", returncode |-> 0, stdout |-> <<>>, stderr |-> <<>>]

NoResult == CommandResult(FALSE, EmptyOutput, <<>>, None)

\* self.previous_commands.append(command)
RecordCommand(j, command) == Append(j, command)

\* execute_command, after a special handler returned
AfterHandler(route, h, j, command) ==
    Done(h.result, RecordCommand(j, command), h.dirs, h.files, h.fault, "", route,
         FALSE, <<>>, NoProcess)

\* Fault variant of exit_ok: a run that wrote nothing to stderr is a success
exit_ok_no_stderr(run) == run.stderr = <<>>

\* success=result.returncode == 0
exit_ok(run) == run.returncode = 0

\* Fault variant of ProcessResult: error=result.stderr or None
ProcessResult_stderr_or_none(run, command) ==
    CommandResult(run.returncode = 0,
                  Out("stdout", run.stdout),
                  command,
                  IF run.returncode # 0 /\ run.stderr # <<>>
                  THEN Err("stderr", "", run.stderr) ELSE None)

\* CommandResult built from the finished subprocess
ProcessResult(run, command) ==
    CommandResult(exit_ok(run),
                  Out("stdout", run.stdout),
                  command,
                  IF run.returncode # 0 THEN Err("stderr", "", run.stderr) ELSE None)

\* Fault variant of blocked: the command is recorded before the safety check
blocked_recorded(command, j, ds, fs) ==
    Done(Failure(command, Err("Comando bloqueado por motivos de seguranca", "", <<>>)),
         RecordCommand(j, command), ds, fs, "", "", "generic", FALSE, <<>>, NoProcess)

\* execute_command's early return for a command that is not safe
blocked(command, j, ds, fs) ==
    Done(Failure(command, Err("Comando bloqueado por motivos de seguranca", "", <<>>)),
         j, ds, fs, "", "", "generic", FALSE, <<>>, NoProcess)

\* Fault variant of spawn_failed: the output captured before the exception
\* is returned as the result's output
spawn_failed_partial(command, run, j, tokens) ==
    Done(CommandResult(FALSE, Out("stdout", run.stdout), command,
                       CaughtError(run.exc)),
         j, run.dirs, run.files, run.exc, "", "generic", TRUE, tokens, Process(run))

\* execute_command's handler for an exception of subprocess.run
spawn_failed(command, run, j, tokens) ==
    Done(Failure(command, CaughtError(run.exc)),
         j, run.dirs, run.files, run.exc, "", "generic", TRUE, tokens, Process(run))

\* execute_command from shlex.split(command) on: the subprocess is run and
\* its result recorded; an exception is caught by execute_command's handler
spawn_path(command, j, ds, fs) ==
    LET sp == ShlexSplit(command)
    IN  IF ~sp.ok
        THEN { Done(Failure(command, CaughtError("ValueError")),
                    j, ds, fs, "ValueError", "", "generic", FALSE, <<>>, NoProcess) }
        ELSE IF sp.tokens = <<>>
        THEN { Done(Failure(command, CaughtError("IndexError")),
                    j, ds, fs, "IndexError", "", "generic", FALSE, <<>>, NoProcess) }
        ELSE { IF run.exc # ""
               THEN spawn_failed(command, run, j, sp.tokens)
               ELSE Done(ProcessResult(run, command),
                         RecordCommand(j, command), run.dirs, run.files, "", "",
                         "generic", TRUE, sp.tokens, Process(run))
               : run \in SubprocessRun(sp.tokens, ds, fs) }

\* Fault variant of generic_path: the safety check is left out
generic_path_unchecked(command, j, ds, fs) == spawn_path(command, j, ds, fs)

\* The generic execution path of execute_command
generic_path(command, j, ds, fs) ==
    IF ~is_safe_command(command)
    THEN { blocked(command, j, ds, fs) }
    ELSE spawn_path(command, j, ds, fs)

\* Fault variant of classify: the redirection is not asked for, every
\* command that starts with echo goes to the file-write handler
classify_echo_prefix_only(command) ==
    IF StartsWith(command, EchoWord) THEN "echo"
    ELSE IF StartsWith(command, MkdirWord) THEN "mkdir"
    ELSE IF StartsWith(command, TouchWord) THEN "touch"
    ELSE "generic"

\* execute_command's if/elif chain: the handler a sanitized command goes to
classify(command) ==
    IF StartsWith(command, EchoWord) /\ Contains(command, ">") THEN "echo"
    ELSE IF StartsWith(command, MkdirWord) THEN "mkdir"
    ELSE IF StartsWith(command, TouchWord) THEN "touch"
    ELSE "generic"

\* CommandExecutor.execute_command
execute_command(raw, j, ds, fs) ==
    LET command == sanitize_command(raw)
        route == classify(command)
    IN  IF route = "echo"
        THEN { AfterHandler("echo", handle_echo(command, ds, fs), j, command) }
        ELSE IF route = "mkdir"
        THEN { AfterHandler("mkdir", handle_mkdir(command, ds, fs), j, command) }
        ELSE IF route = "touch"
        THEN { AfterHandler("touch", handle_touch(command, ds, fs), j, command) }
        ELSE generic_path(command, j, ds, fs)

\* Fault variant of PopLast: pop(0), the oldest entry leaves the journal
PopFirst(j) == Tail(j)

\* self.previous_commands.pop(): what stays in the journal
PopLast(j) == SubSeq(j, 1, Len(j) - 1)

\* Fault variant of no_history: no guard, pop() on the empty list raises
no_history_unguarded(j, ds, fs) ==
    Done(NoResult, j, ds, fs, "IndexError", "IndexError", "undo", FALSE, <<>>, NoProcess)

\* undo_last_command's early return for an empty journal
no_history(j, ds, fs) ==
    Done(Failure(<<>>, Err("Nenhum comando anterior para desfazer", "", <<>>)),
         j, ds, fs, "", "", "undo", FALSE, <<>>, NoProcess)

\* CommandExecutor.undo_last_command
undo_last_command(j, ds, fs) ==
    IF j = <<>>
    THEN no_history(j, ds, fs)
    ELSE LET last_command == j[Len(j)]
             rest == PopLast(j)
             command_parts == SplitWs(last_command)
             target == command_parts[Len(command_parts)]
         IN  IF command_parts = <<>>
             THEN Done(NoResult, rest, ds, fs, "IndexError", "IndexError", "undo",
                       FALSE, <<>>, NoProcess)
             ELSE IF command_parts[1] = MkdirWord
             THEN LET r == RmTree(Resolve(ParsePath(target)), ds, fs)
                  IN  IF r.exc = ""
                      THEN Done(CommandResult(TRUE,
                                    Out("Diretorio removido com sucesso", target),
                                    last_command, None),
                                rest, r.dirs, r.files, "", "", "undo", FALSE, <<>>, NoProcess)
                      ELSE Done(Failure(last_command, CaughtError(r.exc)),
                                rest, r.dirs, r.files, r.exc, "", "undo", FALSE, <<>>, NoProcess)
             ELSE IF command_parts[1] = TouchWord
             THEN LET r == OsRemove(Resolve(ParsePath(target)), ds, fs)
                  IN  IF r.exc = ""
                      THEN Done(CommandResult(TRUE,
                                    Out("Arquivo removido com sucesso", target),
                                    last_command, None),
                                rest, r.dirs, r.files, "", "", "undo", FALSE, <<>>, NoProcess)
                      ELSE Done(Failure(last_command, CaughtError(r.exc)),
                                rest, r.dirs, r.files, r.exc, "", "undo", FALSE, <<>>, NoProcess)
             ELSE Done(Failure(last_command,
                           Err("Comando nao suportado para desfazer", "", <<>>)),
                       rest, ds, fs, "", "", "undo", FALSE, <<>>, NoProcess)

-----------------------------------------------------------------------------
(* The raw command strings the caller may pass to execute.                 *)

Commands ==
    {
      \* a relative directory: mkdir d
      <<"m","k","d","i","r"," ","d">>,
      \* an absolute directory: mkdir /h/d
      <<"m","k","d","i","r"," ","/","h","/","d">>,
      \* a directory under the home directory: mkdir ~/d
      <<"m","k","d","i","r"," ","~","/","d">>,
      \* a quoted directory, then a space: mkdir "d" 
      <<"m","k","d","i","r"," ","\"","d","\""," ">>,
      \* no operand: mkdir
      <<"m","k","d","i","r">>,
      \* a directory under a read-only one: mkdir ro/d
      <<"m","k","d","i","r"," ","r","o","/","d">>,
      \* a blocked token as the operand: mkdir rm
      <<"m","k","d","i","r"," ","r","m">>,
      \* a directory that exists from the start: mkdir ro
      <<"m","k","d","i","r"," ","r","o">>,
      \* a name that a file may hold: mkdir f.txt
      <<"m","k","d","i","r"," ","f",".","t","x","t">>,
      \* an allowed suffix: touch f.txt
      <<"t","o","u","c","h"," ","f",".","t","x","t">>,
      \* a suffix that is not allowed: touch f.sh
      <<"t","o","u","c","h"," ","f",".","s","h">>,
      \* not allowed, under a read-only directory: touch ro/f.sh
      <<"t","o","u","c","h"," ","r","o","/","f",".","s","h">>,
      \* a quoted operand that ends the command: touch "f.txt"
      <<"t","o","u","c","h"," ","\"","f",".","t","x","t","\"">>,
      \* quoted content with a separator: echo "a;b" > f.txt
      <<"e","c","h","o"," ","\"","a",";","b","\""," ",">"," ","f",".","t","x","t">>,
      \* a target whose suffix is not allowed: echo hi > f.sh
      <<"e","c","h","o"," ","h","i"," ",">"," ","f",".","s","h">>,
      \* a writable directory under a read-only one: echo hi > /h/f.txt
      <<"e","c","h","o"," ","h","i"," ",">"," ","/","h","/","f",".","t","x","t">>,
      \* a read-only directory under a writable one: echo hi > ro/f.txt
      <<"e","c","h","o"," ","h","i"," ",">"," ","r","o","/","f",".","t","x","t">>,
      \* a directory that does not exist: echo hi > x/f.txt
      <<"e","c","h","o"," ","h","i"," ",">"," ","x","/","f",".","t","x","t">>,
      \* a blocked base command: rm -rf /
      <<"r","m"," ","-","r","f"," ","/">>,
      \* an allowed base command, with a control character: echo hi<LF>
      <<"e","c","h","o"," ","h","i","\n">>,
      \* mkdir after a leading space:  mkdir d
      <<" ","m","k","d","i","r"," ","d">>,
      \* the empty command: <empty>
      <<>>
    }

\* The arguments the caller may pass to FileManager.create_text_file
TextFileDirs == { ParsePath(<<".">>), ParsePath(<<"r","o">>), ParsePath(<<"x">>) }
TextFileNames == { <<"f",".","m","d">>, <<"f",".","t","x","t">> }
TextFileContents == { <<"\"","h","|","i","\"">> }

-----------------------------------------------------------------------------
(* The state machine: one action per public operation.                     *)

\* The directory argument of a call that takes none
NoDirectory == [abs |-> FALSE, parts |-> <<>>]

Call(op, raw, o) ==
    [op |-> op, raw |-> raw, result |-> o.result, fault |-> o.fault,
     raised |-> o.raised, route |-> o.route, spawned |-> o.spawned, argv |-> o.argv,
     proc |-> o.proc, directory |-> NoDirectory]

\* The paths that exist after a call and did not exist before it
Created(ds, fs, ds2, fs2) == (ds2 \ ds) \cup (DOMAIN fs2 \ DOMAIN fs)

NoAnswer == [op |-> "none", text |-> <<>>, safe |-> FALSE]

InitDirs == { <<>>, CwdParts, HomeParts, << <<"w">>, <<"r","o">> >> }

Init ==
    /\ journal = <<>>
    /\ dirs = InitDirs
    /\ files = [a \in {} |-> <<>>]
    /\ last = [op |-> "none", raw |-> <<>>, result |-> NoResult, fault |-> "",
               raised |-> "", route |-> "none", spawned |-> FALSE, argv |-> <<>>,
               proc |-> NoProcess, directory |-> NoDirectory]
    /\ calls = 0
    /\ createdBy = <<>>
    /\ text = <<>>
    /\ answer = NoAnswer

\* CommandExecutor.execute_command(raw)
Execute ==
    /\ calls < MaxCalls
    /\ \E raw \in Commands :
         \E o \in execute_command(raw, journal, dirs, files) :
            /\ journal' = o.journal
            /\ dirs' = o.dirs
            /\ files' = o.files
            /\ last' = Call("execute", raw, o)
            /\ createdBy' = IF o.journal = journal THEN createdBy
                            ELSE Append(createdBy, Created(dirs, files, o.dirs, o.files))
    /\ calls' = calls + 1
    /\ UNCHANGED <<text, answer>>

\* CommandExecutor.undo_last_command()
Undo ==
    /\ calls < MaxCalls
    /\ LET o == undo_last_command(journal, dirs, files)
       IN  /\ journal' = o.journal
           /\ dirs' = o.dirs
           /\ files' = o.files
           /\ last' = Call("undo", <<>>, o)
           /\ createdBy' = IF o.journal = journal THEN createdBy
                           ELSE SubSeq(createdBy, 1, Len(createdBy) - 1)
    /\ calls' = calls + 1
    /\ UNCHANGED <<text, answer>>

\* FileManager.create_text_file(directory, filename, content, command)
CreateTextFile ==
    /\ calls < MaxCalls
    /\ \E directory \in TextFileDirs, filename \in TextFileNames,
          content \in TextFileContents :
         LET h == create_text_file(directory, filename, content, filename, dirs, files)
         IN  /\ dirs' = h.dirs
             /\ files' = h.files
             /\ last' = [op |-> "create_text_file", raw |-> filename,
                         result |-> h.result, fault |-> h.fault, raised |-> "",
                         route |-> "none", spawned |-> FALSE, argv |-> <<>>,
                         proc |-> NoProcess, directory |-> directory]
    /\ UNCHANGED <<journal, createdBy, text, answer>>
    /\ calls' = calls + 1

Next == Execute \/ Undo \/ CreateTextFile

Spec == Init /\ [][Next]_vars

-----------------------------------------------------------------------------
(* SecurityValidator on its own: a string is drawn, then one of the        *)
(* validator's methods is applied to it.                                   *)

\* Every string of at most n characters of the alphabet
Strings(alphabet, n) == UNION { [1..k -> alphabet] : k \in 0..n }

\* Every command of at most n of the words, one space between two words
RECURSIVE Phrases(_, _)
Phrases(words, n) ==
    IF n = 0 THEN { <<>> }
    ELSE LET shorter == Phrases(words, n - 1)
         IN  shorter \cup words
             \cup { p \o <<" ">> \o w : p \in shorter \ { <<>> }, w \in words }

PathAlphabet == { ".", "/", ";", " ", "a" }
ContentAlphabet == { "\"", "'", "|", "\n", "a" }

CommandWords ==
    { EchoWord, TouchWord, MkdirWord,
      <<"r","m">>, <<"R","M">>, <<"c","p">>, <<">">>,
      <<"f",".","t","x","t">>, <<"f",".","s","h">>,
      <<"e","c","h","o",">","f",".","t","x","t">>,
      <<"e","c","h","o",">","f",".","s","h">> }

ValidatorInputs ==
    Strings(PathAlphabet, MaxPathLen) \cup Strings(ContentAlphabet, MaxContentLen)
    \cup Phrases(CommandWords, MaxTokens)

InitValidator ==
    /\ journal = <<>>
    /\ dirs = InitDirs
    /\ files = [a \in {} |-> <<>>]
    /\ last = [op |-> "none", raw |-> <<>>, result |-> NoResult, fault |-> "",
               raised |-> "", route |-> "none", spawned |-> FALSE, argv |-> <<>>,
               proc |-> NoProcess, directory |-> NoDirectory]
    /\ calls = 0
    /\ createdBy = <<>>
    /\ text \in ValidatorInputs
    /\ answer = NoAnswer

Answer(op, out, safe) == [op |-> op, text |-> out, safe |-> safe]

\* SecurityValidator.sanitize_path(text)
SanitizePath ==
    /\ answer.op = "none"
    /\ answer' = Answer("sanitize_path", sanitize_path(text), FALSE)
    /\ UNCHANGED <<journal, dirs, files, last, calls, createdBy, text>>

\* SecurityValidator.sanitize_text_content(text)
SanitizeTextContent ==
    /\ answer.op = "none"
    /\ answer' = Answer("sanitize_text_content", sanitize_text_content(text), FALSE)
    /\ UNCHANGED <<journal, dirs, files, last, calls, createdBy, text>>

\* SecurityValidator.sanitize_command(text)
SanitizeCommand ==
    /\ answer.op = "none"
    /\ answer' = Answer("sanitize_command", sanitize_command(text), FALSE)
    /\ UNCHANGED <<journal, dirs, files, last, calls, createdBy, text>>

\* SecurityValidator.is_safe_command(text)
IsSafeCommand ==
    /\ answer.op = "none"
    /\ answer' = Answer("is_safe_command", <<>>, is_safe_command(text))
    /\ UNCHANGED <<journal, dirs, files, last, calls, createdBy, text>>

NextValidator == SanitizePath \/ SanitizeTextContent \/ SanitizeCommand \/ IsSafeCommand

SpecValidator == InitValidator /\ [][NextValidator]_vars

-----------------------------------------------------------------------------
(* Properties.                                                             *)

ExecuteStep == calls' = calls + 1 /\ last'.op = "execute"
UndoStep == calls' = calls + 1 /\ last'.op = "undo"

SecurityBlocked == "Comando bloqueado por motivos de seguranca"
NoHistory == "Nenhum comando anterior para desfazer"
Unsupported == "Comando nao suportado para desfazer"
ExtensionNotAllowed == "Extensao de arquivo nao permitida"
PermissionDeniedFile == "Permissao negada para criar arquivo em"
CreationFailure == "Nao foi possivel criar o diretorio"

\* AllowedFileExtensions as the specification states it
SpecExtensions == { <<".","t","x","t">>, <<".","m","d">>, <<".","c","s","v">> }

SuffixOf(a) == PathSuffix([abs |-> TRUE, parts |-> a])

\* The files a step creates or whose content it changes
Written(before, after) ==
    {a \in DOMAIN after : a \notin DOMAIN before \/ after[a] # before[a]}

\* C1: an execute call appends the sanitized command to the journal if and
\* only if it returns success=true; a call that returns success=false leaves
\* the journal unchanged.
C1_JournalIffSuccess ==
    [][ExecuteStep =>
          IF last'.result.success
          THEN journal' = Append(journal, last'.result.command)
          ELSE journal' = journal]_vars

\* C2: a command with a blocked token among its whitespace-separated tokens is
\* refused with SecurityBlocked, spawns nothing and changes no file or directory.
HasBlockedToken(s) == \E i \in DOMAIN SplitWs(s) : SplitWs(s)[i] \in BLOCKED_COMMANDS

C2_BlockedTokenRefused ==
    [][(ExecuteStep /\ HasBlockedToken(last'.raw)) =>
          /\ ~last'.result.success
          /\ last'.result.error.msg = SecurityBlocked
          /\ ~last'.spawned
          /\ dirs' = dirs
          /\ files' = files]_vars

\* C3: every file an execute call creates or writes through the echo or the
\* touch handler has a suffix in {.txt, .md, .csv}.
C3_WrittenSuffixAllowed ==
    [][(ExecuteStep /\ last'.route \in {"echo", "touch"}) =>
          \A a \in Written(files, files') : SuffixOf(a) \in SpecExtensions]_vars

\* C4: after execute("mkdir <dir>") succeeded on an empty journal, the next
\* undo returns success=true and the directory execute resolved <dir> to is
\* gone; an undo on the journal this leaves empty returns NoHistory.
MkdirTarget(command) ==
    LET parts == ShlexSplit(command).tokens
    IN  Resolve(mkdir_path(parts[Len(parts)]).path)

C4_MkdirUndoRoundTrip ==
    [][/\ (/\ UndoStep
           /\ last.op = "execute"
           /\ last.route = "mkdir"
           /\ last.result.success
           /\ journal = <<last.result.command>>)
          => /\ last'.result.success
             /\ MkdirTarget(last.result.command) \notin dirs'
             /\ journal' = <<>>
       /\ (UndoStep /\ journal = <<>>)
          => /\ ~last'.result.success
             /\ last'.result.error.msg = NoHistory]_vars

\* C5 as stated: execute and undo never raise to the caller, and every
\* exception raised inside a call is reported as success=false carrying that
\* exception's message.
C5_FaultMessageCarried ==
    last.op \in {"execute", "undo"} =>
        /\ last.raised = ""
        /\ last.fault # "" =>
              /\ ~last.result.success
              /\ last.result.error.exc = last.fault

\* C5, amended: execute and undo never raise to the caller, and every
\* exception raised inside a call is reported as success=false; the result
\* carries the exception's message, except that an exception raised while
\* creating the directory for mkdir is reported with the fixed
\* creation-failure message and the path.
C5_NeverRaises ==
    last.op \in {"execute", "undo"} =>
        /\ last.raised = ""
        /\ last.fault # "" =>
              /\ ~last.result.success
              /\ \/ last.result.error.exc = last.fault
                 \/ /\ last.route = "mkdir"
                    /\ last.result.error.msg = CreationFailure
                    /\ last.result.error.exc = ""

\* An undo whose deletion failed, reported with the exception's message
C5_Witness ==
    /\ last.op = "undo"
    /\ last.fault = "FileNotFoundError"
    /\ ~last.result.success
    /\ last.result.error.exc = "FileNotFoundError"

\* C6: in every CommandResult returned by execute, undo, create_text_file or
\* write_to_file, error is set (not None) if and only if success is false.
C6_ErrorIffFailure ==
    (last.op # "none" /\ last.raised = "") =>
        ((last.result.error # None) <=> ~last.result.success)

\* A subprocess that exited non-zero with nothing on stderr
C6_Witness ==
    /\ last.op = "execute"
    /\ last.route = "generic"
    /\ last.spawned
    /\ ~last.result.success
    /\ last.result.error = Err("stderr", "", <<>>)

\* C7: on the generic path a subprocess is spawned only if is_safe_command
\* accepts the sanitized command; when it rejects it, execute returns the
\* SecurityBlocked failure and spawns nothing.
C7_SpawnOnlyIfSafe ==
    (last.op = "execute" /\ last.route = "generic") =>
        /\ last.spawned => is_safe_command(last.result.command)
        /\ ~is_safe_command(last.result.command) =>
              /\ ~last.spawned
              /\ ~last.result.success
              /\ last.result.error.msg = SecurityBlocked

\* A generic command that was accepted and handed to the spawn boundary
C7_Witness ==
    /\ last.op = "execute"
    /\ last.route = "generic"
    /\ last.spawned
    /\ last.argv # <<>>

\* C8: an undo on a non-empty journal removes exactly the last entry, acts on
\* that entry, and leaves the earlier entries as they were, whatever its outcome.
C8_UndoPopsLast ==
    [][(UndoStep /\ journal # <<>>) =>
          /\ journal' = SubSeq(journal, 1, Len(journal) - 1)
          /\ last'.result.command = journal[Len(journal)]]_vars

\* An undo that failed on its entry and left an earlier entry in the journal
C8_Witness ==
    /\ last.op = "undo"
    /\ ~last.result.success
    /\ last.result.error.msg \in {Unsupported, "str(e)"}
    /\ Len(journal) = 1
    /\ journal[1] # last.result.command

\* C9: undo on an empty journal returns success=false with NoHistory and
\* changes neither the journal nor the filesystem.
C9_UndoEmptyJournal ==
    [][(UndoStep /\ journal = <<>>) =>
          /\ ~last'.result.success
          /\ last'.result.error.msg = NoHistory
          /\ last'.raised = ""
          /\ journal' = <<>>
          /\ dirs' = dirs
          /\ files' = files]_vars

\* NoHistory from a journal that an earlier undo emptied: the directory the
\* undone mkdir made is still there
C9_Witness ==
    /\ last.op = "undo"
    /\ last.result.error.msg = NoHistory
    /\ journal = <<>>
    /\ dirs # InitDirs

\* The path _handle_touch resolves the last token of `touch <path>` to
TouchHasOperand(command) ==
    ShlexSplit(command).ok /\ Len(ShlexSplit(command).tokens) >= 2

TouchTarget(command) ==
    LET parts == ShlexSplit(command).tokens
    IN  PathJoin(Cwd, ParsePath(parts[Len(parts)]))

WritableParentDir(a, ds) == IsDir(ParentOf(a), ds) /\ ParentOf(a) \notin ReadOnlyDirs

C11_TimeoutIsFailure ==
    [][(ExecuteStep /\ last'.spawned /\ last'.proc.exc = "TimeoutExpired") =>
          /\ ~last'.result.success
          /\ last'.result.error = CaughtError("TimeoutExpired")
          /\ last'.result.output = EmptyOutput
          /\ last'.raised = ""
          /\ last'.route = "generic"
          /\ journal' = journal]_vars

\* A timeout, with output captured before it, of a call made with a journal
\* that has an entry
C11_Witness ==
    /\ last.op = "execute"
    /\ last.spawned
    /\ last.proc.exc = "TimeoutExpired"
    /\ last.proc.stdout # <<>>
    /\ journal # <<>>

\* The two sides of `echo <content> > <path>` as the specification reads
\* them: the text left of the first `>` without the echo keyword and its
\* surrounding quotes, sanitized; the text right of it, sanitized as a path
EchoContent(command) ==
    sanitize_text_content(
        Strip(Strip(RemoveFirst(SplitOnce(command, ">")[1], EchoWord), Whitespace),
              QuoteChars))

EchoTarget(command) ==
    ParsePath(sanitize_path(Strip(SplitOnce(command, ">")[2], Whitespace)))

HasNoShellMeta(s) == \A i \in DOMAIN s : s[i] \notin ShellMeta

\* C12: for every command `echo <content> > <path>` whose target's parent
\* directory exists and is writable, execute succeeds, the file at <path> then
\* holds exactly the sanitized content (no ;, &, |) whatever it held before,
\* and the output carries the target path.
C12_EchoWritesSanitized ==
    [][(ExecuteStep /\ last'.route = "echo") =>
          LET command == last'.result.command
              a == Resolve(EchoTarget(command))
          IN  (a # <<>> /\ WritableParentDir(a, dirs)) =>
                 /\ last'.result.success
                 /\ a \in DOMAIN files'
                 /\ files'[a] = EchoContent(command)
                 /\ HasNoShellMeta(files'[a])
                 /\ last'.result.output.arg = PathStr(EchoTarget(command))]_vars

HasNoDotDot(s) == Find(s, <<".",".","/">>) = 0

\* C13: sanitize_path is idempotent, and what it returns holds no `../` and
\* none of the characters ;, &, |.
C13_SanitizePathIdempotent ==
    answer.op = "sanitize_path" =>
       /\ sanitize_path(answer.text) = answer.text
       /\ HasNoDotDot(answer.text)
       /\ HasNoShellMeta(answer.text)

\* An input whose `../` only forms once an inner `../` and a separator are gone
C13_Witness ==
    /\ answer.op = "sanitize_path"
    /\ text = <<".", ".", ";", ".", "/", "/">>

\* The extension of the target of an echo redirection: the suffix of the text
\* after the last `>`
RedirectSuffix(command) ==
    LET pieces == SplitOn(command, ">")
    IN  PathSuffix(ParsePath(Strip(pieces[Len(pieces)], Whitespace)))

\* C14: is_safe_command returns false for every command that begins with echo,
\* contains `>` and whose target, the text after the last `>`, has an extension
\* outside {.txt, .md, .csv}; such a command is accepted only with an
\* extension in that set.
C14_EchoRedirectExtension ==
    (/\ answer.op = "is_safe_command"
     /\ StartsWith(text, EchoWord)
     /\ Contains(text, ">")
     /\ RedirectSuffix(text) \notin SpecExtensions) => ~answer.safe

\* BlockedTokens and AllowedBaseCommands as the specification states them
SpecBlocked ==
    { <<"r","m">>, <<"m","k","f","s">>, <<"d","d">>,
      <<":","(",")","{",":","|",":","&","}",";",":">>,
      <<"m","v">>, <<"c","h","m","o","d">> }

SpecAllowedBase == { <<"t","o","u","c","h">>, <<"e","c","h","o">>, <<"m","k","d","i","r">> }

LowerTokens(command) == SplitWs(Lower(command))

HasBlockedWord(command) ==
    \E i \in DOMAIN LowerTokens(command) : LowerTokens(command)[i] \in SpecBlocked

\* The allow-list branch: the first token is an allowed base command and, for
\* touch, the last of two or more tokens has an allowed extension
AllowedByBase(command) ==
    LET tokens == LowerTokens(command)
    IN  /\ tokens # <<>>
        /\ tokens[1] \in SpecAllowedBase
        /\ tokens[1] = TouchWord =>
              /\ Len(tokens) > 1
              /\ PathSuffix(ParsePath(tokens[Len(tokens)])) \in SpecExtensions

\* C15 as stated: is_safe_command returns false whenever a blocked token is
\* among the lower-cased tokens; otherwise it returns true only if the first
\* token is an allowed base command (for touch, with an allowed extension on
\* the last token); every other command, the empty one included, gets false.
C15_TrueOnlyByBaseCommand ==
    answer.op = "is_safe_command" =>
       /\ HasBlockedWord(text) => ~answer.safe
       /\ answer.safe => AllowedByBase(text)

\* C15: is_safe_command returns false whenever a blocked token is among the
\* lower-cased tokens.  Otherwise it returns true exactly when the first token
\* is an allowed base command (for touch, with an allowed extension on the
\* last token), or when the first token is none and the command begins with
\* echo, contains `>` and the text after the last `>` has an allowed
\* extension.  Every other command, the empty one included, gets false.
C15_DefaultDeny ==
    answer.op = "is_safe_command" =>
       answer.safe =
          /\ ~HasBlockedWord(text)
          /\ \/ AllowedByBase(text)
             \/ /\ LowerTokens(text) # <<>>
                /\ LowerTokens(text)[1] \notin SpecAllowedBase
                /\ StartsWith(text, EchoWord)
                /\ Contains(text, ">")
                /\ RedirectSuffix(text) \in SpecExtensions

\* A blocked token in upper case after an allowed base command: refused
C15_Witness ==
    /\ answer.op = "is_safe_command"
    /\ text = <<"m","k","d","i","r"," ","R","M">>
    /\ ~answer.safe

\* At most one quote character taken from each end
TrimOneLayer(s) ==
    LET l == IF s # <<>> /\ Head(s) \in QuoteChars THEN Tail(s) ELSE s
    IN  IF l # <<>> /\ l[Len(l)] \in QuoteChars THEN SubSeq(l, 1, Len(l) - 1) ELSE l

IsSanitizer(op) == op \in {"sanitize_text_content", "sanitize_command"}

\* C16: the sanitized text is the input with every ;, &, | removed,
\* exactly one layer of surrounding quotes trimmed, so that a doubly quoted
\* input keeps its inner quotes, and every control character removed.
C16_OneQuoteLayer ==
    IsSanitizer(answer.op) =>
       answer.text = RemoveChars(TrimOneLayer(RemoveChars(text, ShellMeta)),
                                 ControlChars)

DirectoryNotFound == "Diretorio nao encontrado"
PermissionDeniedWrite == "Permissao negada para escrever no arquivo"
PermissionDenied == {PermissionDeniedFile, PermissionDeniedWrite}

\* A step of create_text_file, or of write_to_file as execute calls it for
\* `echo <content> > <path>`
FileOpsStep ==
    /\ calls' = calls + 1
    /\ \/ last'.op = "create_text_file"
       \/ last'.op = "execute" /\ last'.route = "echo"

\* C17: create_text_file and write_to_file fail with PermissionDenied exactly
\* when the target directory itself (the directory argument, the parent of the
\* target path) is not writable, fail with NotFound when it does not exist,
\* and write the file when it exists and is writable, whatever the
\* writability of the directory's own parent.
C17_PermissionOfTargetDirectory ==
    [][FileOpsStep =>
          LET d == IF last'.op = "create_text_file"
                   THEN Resolve(last'.directory)
                   ELSE ParentOf(Resolve(EchoTarget(last'.result.command)))
          IN  IF ~Exists(d, dirs, files)
              THEN /\ ~last'.result.success
                   /\ last'.result.error.msg = DirectoryNotFound
              ELSE /\ last'.result.error.msg \in PermissionDenied
                         <=> ~AccessW(d, dirs, files)
                   /\ AccessW(d, dirs, files) =>
                         /\ last'.result.success
                         /\ \E a \in DOMAIN files' : ParentOf(a) = d]_vars

IsEchoWrite(command) == StartsWith(command, EchoWord) /\ Contains(command, ">")

\* C18: execute takes the sanitized command to exactly one path, by prefix and
\* in this order: echo with a `>` to the file-write path, else mkdir to the
\* directory-creation path, else touch to the file-creation path, else the
\* generic path; a call on one of the first three paths spawns no subprocess,
\* whether its handler succeeds or fails.
C18_ClassifiedByPrefix ==
    last.op = "execute" =>
       LET command == last.result.command
       IN  /\ last.route = "echo" <=> IsEchoWrite(command)
           /\ last.route = "mkdir" <=>
                 ~IsEchoWrite(command) /\ StartsWith(command, MkdirWord)
           /\ last.route = "touch" <=>
                 /\ ~IsEchoWrite(command)
                 /\ ~StartsWith(command, MkdirWord)
                 /\ StartsWith(command, TouchWord)
           /\ last.route \in {"echo", "mkdir", "touch", "generic"}
           /\ last.route # "generic" => ~last.spawned /\ last.argv = <<>>

\* A touch whose handler failed: nothing spawned
C18_Witness ==
    /\ last.op = "execute"
    /\ last.route = "touch"
    /\ ~last.result.success
    /\ ~last.spawned

\* C19: on the generic path success is true if and only if a subprocess ran
\* and its exit code is zero; for a non-zero exit code success is false, error
\* is the captured stderr and output the captured stdout.
C19_SuccessIffExitZero ==
    (last.op = "execute" /\ last.route = "generic") =>
       /\ last.result.success <=>
             (last.spawned /\ last.proc.exc = "" /\ last.proc.returncode = 0)
       /\ (last.spawned /\ last.proc.exc = "" /\ last.proc.returncode # 0) =>
             /\ ~last.result.success
             /\ last.result.error = Err("stderr", "", last.proc.stderr)
             /\ last.result.output = Out("stdout", last.proc.stdout)

\* A subprocess that wrote to stdout, nothing to stderr, and exited with 1
C19_Witness ==
    /\ last.op = "execute"
    /\ last.route = "generic"
    /\ last.proc.returncode = 1
    /\ last.proc.stdout # <<>>
    /\ last.proc.stderr = <<>>
    /\ last.result.output.arg = last.proc.stdout

\* The paths that existed before a call and do not exist after it
Removed(ds, fs, ds2, fs2) == (ds \ ds2) \cup (DOMAIN fs \ DOMAIN fs2)

\* C20: undo deletes a directory or a file only if the journaled execute call
\* it reverses created it; what existed before that call, or what that call
\* failed to create, is never deleted, in any sequence of execute and undo.
C20_UndoDeletesOnlyCreated ==
    [][(UndoStep /\ journal # <<>>) =>
          Removed(dirs, files, dirs', files') \subseteq createdBy[Len(createdBy)]]_vars

\* The first whitespace-separated token of a command, lower-cased; the empty
\* string for a command without one
FirstWord(command) ==
    LET tokens == SplitWs(command)
    IN  IF tokens = <<>> THEN <<>> ELSE Lower(tokens[1])

\* C21: a sanitized command whose first whitespace-separated token, lower-cased,
\* is mkdir or touch, with or without whitespace before it, is never passed to
\* the subprocess spawn boundary: the directory-creation or file-creation
\* handler takes it.
C21_MkdirTouchNeverSpawned ==
    (last.op = "execute" /\ FirstWord(last.result.command) \in {MkdirWord, TouchWord}) =>
       /\ ~last.spawned
       /\ last.route \in {"mkdir", "touch"}

HandledWords == {EchoWord, MkdirWord, TouchWord}

\* C22: every journal entry has a first whitespace-separated token, and that
\* token, lower-cased, begins with echo, mkdir or touch; so the lookup of the
\* first token of the entry undo pops never fails with an index error.
C22_JournalEntriesHandled ==
    /\ \A i \in DOMAIN journal :
          LET first == FirstWord(journal[i])
          IN  /\ first # <<>>
              /\ \E w \in HandledWords : StartsWith(first, w)
    /\ last.op = "undo" => (last.fault # "IndexError" /\ last.raised # "IndexError")

\* An undo of an entry that came through the generic path with whitespace
\* before its first token, with an earlier entry left in the journal
C22_Witness ==
    /\ last.op = "undo"
    /\ last.result.command # <<>>
    /\ Head(last.result.command) \in Whitespace
    /\ journal # <<>>

\* No ;, &, | and no control character
IsClean(s) == \A i \in DOMAIN s : s[i] \notin ShellMeta \cup ControlChars

\* C23: no journal entry and no command line handed to the subprocess spawn
\* boundary holds a ;, &, | or a control character, and the command field of
\* every result of execute is the sanitized raw command.
C23_OnlySanitizedCommands ==
    /\ \A i \in DOMAIN journal : IsClean(journal[i])
    /\ last.op = "execute" =>
          /\ last.result.command = sanitize_text_content(last.raw)
          /\ \A k \in DOMAIN last.argv : IsClean(last.argv[k])

\* A raw command with a control character, spawned and journaled without it,
\* after a raw command with a separator, journaled without it
C23_Witness ==
    /\ last.op = "execute"
    /\ ~IsClean(last.raw)
    /\ last.spawned
    /\ Len(journal) = 2
    /\ journal[2] = last.result.command
    /\ journal[1] = <<"e","c","h","o"," ","\"","a","b","\""," ",">"," ","f",".","t","x","t">>

=============================================================================
